---- MODULE Spec2Model ----
(***************************************************************************)
(* Model of yente's HTTP interception layer (src/yente/app.py):            *)
(* get_user_id, request_middleware, the two elasticsearch exception        *)
(* handlers and the middleware order that create_app registers.            *)
(*                                                                         *)
(* Strings whose content matters (the authorization header, user ids) are  *)
(* sequences of one-character strings.  Optional[str] is a set with at     *)
(* most one element: None is {} and a value s is {s}.  Header collections  *)
(* and the structlog context are functions from names to values.           *)
(***************************************************************************)
EXTENDS Integers, Sequences, FiniteSets, TLC

VARIABLES pc, request, user_id, trace_id, ctx, outcome, result, response,
          sent, logs, seen, prev, nextTrace

vars == <<pc, request, user_id, trace_id, ctx, outcome, result, response,
          sent, logs, seen, prev, nextTrace>>

(* ------------------------------ bounds --------------------------------- *)

\* number of execution contexts (asyncio tasks / workers) serving requests
MaxCtx == 2

\* number of trace ids uuid4 hands out before the model stops taking requests
MaxTrace == 3

\* length of the over-long credential used to exercise the truncation
LongLen == 42

\* length of the longest enumerated authorization header value
MaxHdrLen == 3

Ctxs == 1..MaxCtx

(* ------------------------- program constants --------------------------- *)

UserIdMaxLen == 40

FallbackStatus == 500

TransportStatus == 500

(* ------------------------------ strings -------------------------------- *)

None == {}

Some(x) == {x}

TheValue(o) == CHOOSE x \in o : TRUE

WS == " "

UpperSeq == <<"A","B","C","D","E","F","G","H","I","J","K","L","M",
              "N","O","P","Q","R","S","T","U","V","W","X","Y","Z">>

LowerSeq == <<"a","b","c","d","e","f","g","h","i","j","k","l","m",
              "n","o","p","q","r","s","t","u","v","w","x","y","z">>

Digits == {"0","1","2","3","4","5","6","7","8","9"}

Range(s) == {s[i] : i \in DOMAIN s}

\* str.lower() on one ASCII character
ToLower(c) ==
    IF \E i \in DOMAIN UpperSeq : UpperSeq[i] = c
    THEN LowerSeq[CHOOSE i \in DOMAIN UpperSeq : UpperSeq[i] = c]
    ELSE c

IsAlnum(c) == c \in Range(LowerSeq) \cup Digits

\* `" " in s`
HasSpace(s) == \E i \in DOMAIN s : s[i] = WS

\* a split at the last space instead of the first
AfterFirstSpace_last(s) ==
    LET i == CHOOSE k \in DOMAIN s :
                 s[k] = WS /\ \A j \in (k + 1)..Len(s) : s[j] # WS
    IN SubSeq(s, i + 1, Len(s))

\* `s.split(" ", 1)[1]`: everything after the first space
AfterFirstSpace(s) ==
    LET i == CHOOSE k \in DOMAIN s :
                 s[k] = WS /\ \A j \in 1..(k - 1) : s[j] # WS
    IN SubSeq(s, i + 1, Len(s))

\* `s[:n]`
Prefix(s, n) == IF Len(s) <= n THEN s ELSE SubSeq(s, 1, n)

\* normality.slugify, stage 1: lower-case, every non-alphanumeric character
\* becomes white space
SlugChars(s) ==
    [i \in DOMAIN s |-> IF IsAlnum(ToLower(s[i])) THEN ToLower(s[i]) ELSE WS]

RECURSIVE CollapseFrom(_, _, _)
\* normality.slugify, stage 2 (collapse_spaces): runs of white space become
\* one, leading and trailing white space is dropped
CollapseFrom(s, i, out) ==
    IF i > Len(s)
    THEN IF out # <<>> /\ out[Len(out)] = WS
         THEN SubSeq(out, 1, Len(out) - 1)
         ELSE out
    ELSE IF s[i] = WS /\ (out = <<>> \/ out[Len(out)] = WS)
         THEN CollapseFrom(s, i + 1, out)
         ELSE CollapseFrom(s, i + 1, Append(out, s[i]))

\* a slugify that gives the empty string when nothing is left
slugify_empty(s) ==
    LET t == CollapseFrom(SlugChars(s), 1, <<>>)
    IN Some([i \in DOMAIN t |-> IF t[i] = WS THEN "-" ELSE t[i]])

\* normality.slugify(text): None when nothing is left, else words joined by "-"
slugify(s) ==
    LET t == CollapseFrom(SlugChars(s), 1, <<>>)
    IN IF t = <<>>
       THEN None
       ELSE Some([i \in DOMAIN t |-> IF t[i] = WS THEN "-" ELSE t[i]])

\* get_user_id(headers); auth is headers.get("authorization")
get_user_id(auth) ==
    LET raw == IF auth = None THEN None
               ELSE IF HasSpace(TheValue(auth))
                    THEN slugify(AfterFirstSpace(TheValue(auth)))
                    ELSE slugify(TheValue(auth))
    IN IF raw = None THEN None
       ELSE Some(Prefix(TheValue(raw), UserIdMaxLen))

(* ------------------------------ inputs --------------------------------- *)

RECURSIVE Rep(_, _)
Rep(c, n) == IF n = 0 THEN <<>> ELSE <<c>> \o Rep(c, n - 1)

BearerJohnDoe ==
    <<"B","e","a","r","e","r"," ","J","o","h","n"," ","D","o","e","!","!">>

BasicPunct == <<"B","a","s","i","c"," ","!","!">>

LongToken == <<"T","o","k","e","n"," ">> \o Rep("a", LongLen)

\* values of headers.get("authorization")
AuthHeaders ==
    {None, Some(BearerJohnDoe), Some(BasicPunct), Some(LongToken)}

\* request.client: None or the peer address
Clients == {None, Some("10.0.0.1")}

NoHeaders == [h \in {} |-> 0]

\* headers a downstream response may already carry before the interceptor
\* touches it
DownstreamHeaders ==
    {NoHeaders, ("x-trace-id" :> 0) @@ ("x-user-id" :> <<"x">>)}

ApiStatuses == {404, 503}

Messages == {"not found", "connection refused"}

\* the ways the route handler below the middleware stack can end
HandlerOutcomes ==
    [type : {"Response"}, status_code : {200}, message : {"ok"},
     headers : DownstreamHeaders]
    \cup [type : {"ApiError"}, status_code : ApiStatuses,
          message : Messages, headers : {NoHeaders}]
    \cup [type : {"TransportError"}, status_code : {0},
          message : Messages, headers : {NoHeaders}]
    \cup [type : {"Exception", "CancelledError"}, status_code : {0},
          message : {""}, headers : {NoHeaders}]

\* exception classes derived from Exception; `except Exception` catches
\* these and nothing else (CancelledError derives from BaseException)
ExceptionClasses == {"ApiError", "TransportError", "Exception"}

(* ----------------------------- responses ------------------------------- *)

JSONResponse(status, content) ==
    [status_code |-> status, body |-> content, headers |-> NoHeaders]

\* a header assignment that keeps a value that is already there
SetHeader_keep(resp, k, v) ==
    [resp EXCEPT !.headers = resp.headers @@ (k :> v)]

\* response.headers[k] = v
SetHeader(resp, k, v) ==
    [resp EXCEPT !.headers = (k :> v) @@ resp.headers]

HasHeader(resp, k) == k \in DOMAIN resp.headers

Returned(resp) == [kind |-> "returned", response |-> Some(resp), exc |-> None]

Raised(o) == [kind |-> "raised", response |-> None, exc |-> Some(o)]

(* --------------------------- error translation ------------------------- *)

\* a handler that ignores the status the fault carries
api_error_handler_fixed_status(exc) ==
    JSONResponse(TransportStatus, <<"detail", exc.message>>)

api_error_handler(exc) ==
    JSONResponse(exc.status_code, <<"detail", exc.message>>)

\* a handler that answers 502 for a transport fault
transport_error_handler_bad_gateway(exc) ==
    JSONResponse(502, <<"detail", exc.message>>)

transport_error_handler(exc) ==
    JSONResponse(TransportStatus, <<"detail", exc.message>>)

(* ----------------------------- create_app ------------------------------ *)

\* app.add_middleware: the newest middleware goes in front of the older ones
add_middleware(stack, m) == <<m>> \o stack

\* the two registrations of create_app, in source order
user_middleware ==
    add_middleware(add_middleware(<<>>, "CORSMiddleware"), "request_middleware")

\* a create_app that registers no exception handler
exception_handlers_none == {}

\* app.add_exception_handler registrations
exception_handlers == {"ApiError", "TransportError"}

\* the stack a request traverses, outermost first
middleware_stack ==
    <<"ServerErrorMiddleware">> \o user_middleware \o <<"ExceptionMiddleware">>

Pos(m) == CHOOSE i \in DOMAIN middleware_stack : middleware_stack[i] = m

\* what one layer other than request_middleware does to the result that
\* comes back through it
Layer(name, req, res) ==
    CASE name = "ExceptionMiddleware" ->
           IF res.kind = "raised" /\ TheValue(res.exc).type \in exception_handlers
           THEN IF TheValue(res.exc).type = "ApiError"
                THEN Returned(api_error_handler(TheValue(res.exc)))
                ELSE Returned(transport_error_handler(TheValue(res.exc)))
           ELSE res
      [] name = "CORSMiddleware" ->
           IF res.kind = "returned" /\ req.origin
           THEN Returned(SetHeader(TheValue(res.response),
                                   "access-control-allow-origin", "*"))
           ELSE res
      [] OTHER -> res

RECURSIVE Through(_, _, _, _)
\* pass res outwards through the layers at positions from, from-1, ..., to
Through(req, res, from, to) ==
    IF from < to THEN res
    ELSE Through(req, Layer(middleware_stack[from], req, res), from - 1, to)

\* the route handler's outcome as it leaves the handler
HandlerResult(o) ==
    IF o.type = "Response"
    THEN Returned([status_code |-> o.status_code,
                   body |-> <<"results", o.message>>,
                   headers |-> o.headers])
    ELSE Raised(o)

\* `await call_next(request)`: everything inside request_middleware
call_next(req, o) ==
    Through(req, HandlerResult(o), Len(middleware_stack),
            Pos("request_middleware") + 1)

\* what the layers outside request_middleware do to what it hands back
Outside(req, res) ==
    Through(req, res, Pos("request_middleware") - 1, 1)

(* ------------------------- structlog contextvars ----------------------- *)

NoBindings == [k \in {} |-> 0]

\* a binding kept in one process-wide slot instead of the caller's context
bind_contextvars_global(all, c, kw) == [d \in DOMAIN all |-> kw @@ all[d]]

\* bind_contextvars(**kw), called in context c: contextvars are local to
\* the context (asyncio task) that sets them
bind_contextvars(all, c, kw) == [all EXCEPT ![c] = kw @@ all[c]]

\* a clear that leaves the bindings in place
clear_contextvars_noop(all, c) == all

\* clear_contextvars(), called in context c
clear_contextvars(all, c) == [all EXCEPT ![c] = NoBindings]

(* -------------------------- request_middleware ------------------------- *)

\* a client address that is always the loopback address
ClientIp_loopback(client) == "127.0.0.1"

\* `request.client.host if request.client else "127.0.0.1"`
ClientIp(client) == IF client # None THEN TheValue(client) ELSE "127.0.0.1"

\* an except clause that names only the recognized fault classes
Catches_recognized(type) == type \in {"ApiError", "TransportError"}

\* `except Exception`
Catches(type) == type \in ExceptionClasses

\* a fallback with the handlers' body shape
FallbackResponse_detail == JSONResponse(FallbackStatus, <<"detail", "error">>)

\* the response synthesized in the except branch
FallbackResponse == JSONResponse(FallbackStatus, <<"status", "error">>)

\* the response chosen by the try statement
ChosenResponse(res) ==
    IF res.kind = "returned" THEN TheValue(res.response) ELSE FallbackResponse

\* header setting that forgets the trace id
SetDiagnosticHeaders_no_trace(resp, trace, uid) ==
    IF uid # None THEN SetHeader(resp, "x-user-id", TheValue(uid)) ELSE resp

\* header setting that forgets the user id
SetDiagnosticHeaders_no_user(resp, trace, uid) ==
    SetHeader(resp, "x-trace-id", trace)

\* header setting that also echoes the trace id in the body
SetDiagnosticHeaders_body_trace(resp, trace, uid) ==
    LET r1 == SetHeader([resp EXCEPT !.body = <<"trace", trace>>],
                        "x-trace-id", trace)
    IN IF uid # None THEN SetHeader(r1, "x-user-id", TheValue(uid)) ELSE r1

\* response.headers["x-trace-id"] = ...; if user_id is not None: ...
SetDiagnosticHeaders(resp, trace, uid) ==
    LET r1 == SetHeader(resp, "x-trace-id", trace)
    IN IF uid # None THEN SetHeader(r1, "x-user-id", TheValue(uid)) ELSE r1

\* a record handed to the logger; structlog merges the bindings of the
\* context it is emitted in.  headers is the state of the response's headers
\* when the record is emitted.
LogRecord(level, action, code, bindings, headers) ==
    [level |-> level, action |-> action, code |-> code,
     ctx |-> bindings, headers |-> headers]

\* a request record that reports success whatever the response says
RequestLogRecord_ok(resp, bindings) ==
    LogRecord("info", "request", Some(200), bindings, resp.headers)

\* a request record emitted after the context was cleared
RequestLogRecord_after_clear(resp, bindings) ==
    LogRecord("info", "request", Some(resp.status_code), NoBindings,
              resp.headers)

\* log.info(..., action="request", code=response.status_code, ...)
RequestLogRecord(resp, bindings) ==
    LogRecord("info", "request", Some(resp.status_code), bindings, resp.headers)

\* log.exception("Exception during request: ...")
ExceptionLogRecord(bindings) ==
    LogRecord("error", "exception", None, bindings, NoHeaders)

\* log.error(...) of the handler that translates a recognized fault
HandlerLogRecords(o, bindings) ==
    IF o.type \in exception_handlers
    THEN <<LogRecord("error", o.type,
                     IF o.type = "ApiError" THEN Some(o.status_code) ELSE None,
                     bindings, NoHeaders)>>
    ELSE <<>>

NoRequest == [authorization |-> None, client |-> None, origin |-> FALSE]

Init ==
    /\ pc = [c \in Ctxs |-> "idle"]
    /\ request = [c \in Ctxs |-> NoRequest]
    /\ user_id = [c \in Ctxs |-> None]
    /\ trace_id = [c \in Ctxs |-> 0]
    /\ ctx = [c \in Ctxs |-> NoBindings]
    /\ outcome = [c \in Ctxs |-> None]
    /\ result = [c \in Ctxs |-> None]
    /\ response = [c \in Ctxs |-> None]
    /\ sent = [c \in Ctxs |-> None]
    /\ logs = [c \in Ctxs |-> <<>>]
    /\ seen = [c \in Ctxs |-> NoBindings]
    /\ prev = [c \in Ctxs |-> "idle"]
    /\ nextTrace = 1

\* request_middleware from its entry to the await: a request arrives in a
\* context that is not handling another one
Begin(c, auth, client, origin) ==
    /\ pc[c] \in {"idle", "done", "escaped"}
    /\ nextTrace <= MaxTrace
    /\ LET uid == get_user_id(auth)
           kw == ("user_id" :> uid) @@ ("trace_id" :> nextTrace)
                   @@ ("client_ip" :> ClientIp(client))
       IN /\ user_id' = [user_id EXCEPT ![c] = uid]
          /\ trace_id' = [trace_id EXCEPT ![c] = nextTrace]
          /\ ctx' = bind_contextvars(ctx, c, kw)
    /\ request' = [request EXCEPT ![c] =
           [authorization |-> auth, client |-> client, origin |-> origin]]
    /\ nextTrace' = nextTrace + 1
    /\ seen' = [seen EXCEPT ![c] = ctx[c]]
    /\ prev' = [prev EXCEPT ![c] = pc[c]]
    /\ outcome' = [outcome EXCEPT ![c] = None]
    /\ result' = [result EXCEPT ![c] = None]
    /\ response' = [response EXCEPT ![c] = None]
    /\ sent' = [sent EXCEPT ![c] = None]
    /\ logs' = [logs EXCEPT ![c] = <<>>]
    /\ pc' = [pc EXCEPT ![c] = "await"]

\* the downstream call ends: the handler's outcome o comes back through the
\* layers inside request_middleware
CallNext(c, o) ==
    /\ pc[c] = "await"
    /\ outcome' = [outcome EXCEPT ![c] = Some(o)]
    /\ result' = [result EXCEPT ![c] = Some(call_next(request[c], o))]
    /\ logs' = [logs EXCEPT ![c] = @ \o HandlerLogRecords(o, ctx[c])]
    /\ pc' = [pc EXCEPT ![c] = "resume"]
    /\ UNCHANGED <<request, user_id, trace_id, ctx, response, sent, seen,
                   prev, nextTrace>>

\* request_middleware from the await to its end
Resume(c) ==
    /\ pc[c] = "resume"
    /\ LET res == TheValue(result[c])
           raised == res.kind = "raised"
       IN IF raised /\ ~Catches(TheValue(res.exc).type)
          THEN \* the fault leaves the coroutine at the await
               /\ pc' = [pc EXCEPT ![c] = "escaped"]
               /\ UNCHANGED <<response, sent, logs, ctx>>
          ELSE LET chosen == ChosenResponse(res)
                   final == SetDiagnosticHeaders(chosen, trace_id[c], user_id[c])
                   excLog == IF raised THEN <<ExceptionLogRecord(ctx[c])>>
                             ELSE <<>>
               IN /\ logs' = [logs EXCEPT ![c] =
                        @ \o excLog \o <<RequestLogRecord(final, ctx[c])>>]
                  /\ ctx' = clear_contextvars(ctx, c)
                  /\ response' = [response EXCEPT ![c] = Some(final)]
                  /\ sent' = [sent EXCEPT ![c] =
                        Outside(request[c], Returned(final)).response]
                  /\ pc' = [pc EXCEPT ![c] = "done"]
    /\ UNCHANGED <<request, user_id, trace_id, outcome, result, seen, prev,
                   nextTrace>>

\* the context of the worker that serves requests one after the other
Worker == 1

\* one worker, every request and every downstream outcome
Next ==
    \/ \E auth \in AuthHeaders, client \in Clients, origin \in BOOLEAN :
          Begin(Worker, auth, client, origin)
    \/ \E o \in HandlerOutcomes : CallNext(Worker, o)
    \/ Resume(Worker)

Spec == Init /\ [][Next]_vars

\* the downstream call ends, and the event loop resumes a coroutine whose
\* awaited call has ended
FairSpec ==
    /\ Spec
    /\ WF_vars(\E o \in HandlerOutcomes : CallNext(Worker, o))
    /\ WF_vars(Resume(Worker))

\* requests and outcomes of the interleaved runs
ConcRequests ==
    {[authorization |-> None, client |-> None, origin |-> FALSE],
     [authorization |-> Some(BearerJohnDoe), client |-> Some("10.0.0.1"),
      origin |-> FALSE]}

ConcOutcomes ==
    {o \in HandlerOutcomes :
        /\ o.type \in {"Response", "Exception", "CancelledError"}
        /\ o.headers = NoHeaders}

\* several contexts whose requests interleave at the await
NextConc ==
    \/ \E c \in Ctxs, r \in ConcRequests :
          Begin(c, r.authorization, r.client, r.origin)
    \/ \E c \in Ctxs, o \in ConcOutcomes : CallNext(c, o)
    \/ \E c \in Ctxs : Resume(c)

ConcSpec == Init /\ [][NextConc]_vars

TypeOK ==
    /\ pc \in [Ctxs -> {"idle", "await", "resume", "done", "escaped"}]
    /\ nextTrace \in 1..(MaxTrace + 1)
    /\ \A c \in Ctxs : Cardinality(user_id[c]) <= 1

\* characters of the enumerated authorization header values
HeaderChars == {"a", "B", " ", "!", "-"}

\* every header value of at most MaxHdrLen characters, and the named ones
HeaderInputs ==
    AuthHeaders
    \cup {Some(s) : s \in UNION {[1..n -> HeaderChars] : n \in 0..MaxHdrLen}}

\* one request with any of the enumerated authorization headers, handled to
\* its end
NextHeaders ==
    \/ /\ pc[Worker] = "idle"
       /\ \E auth \in HeaderInputs : Begin(Worker, auth, None, FALSE)
    \/ \E o \in HandlerOutcomes : CallNext(Worker, o)
    \/ Resume(Worker)

HeaderSpec == Init /\ [][NextHeaders]_vars

(* ------------------------------ claims --------------------------------- *)

Done(c) == pc[c] = "done"

TheOutcome(c) == TheValue(outcome[c])

TheResult(c) == TheValue(result[c])

TheResponse(c) == TheValue(response[c])

TheSent(c) == TheValue(sent[c])

RequestRecords(c) ==
    {i \in DOMAIN logs[c] : logs[c][i].action = "request"}

\* the downstream call ended in one of: a normal response, a recognized
\* fault translated by its handler, an unhandled fault derived from Exception
ListedOutcome(c) ==
    /\ outcome[c] # None
    /\ TheOutcome(c).type \in {"Response"} \cup ExceptionClasses

\* the response handed back carries the trace id generated for this request,
\* which is also the trace id that was bound when the request was logged
TraceHeaderSet(c) ==
    /\ Done(c)
    /\ response[c] # None /\ sent[c] # None
    /\ HasHeader(TheResponse(c), "x-trace-id")
    /\ TheResponse(c).headers["x-trace-id"] = trace_id[c]
    /\ HasHeader(TheSent(c), "x-trace-id")
    /\ TheSent(c).headers["x-trace-id"] = trace_id[c]
    /\ \A i \in RequestRecords(c) : logs[c][i].ctx["trace_id"] = trace_id[c]

\* C1: once a request is in request_middleware its downstream call ends, and
\* when it ends in a normal response, a translated recognized fault or an
\* unhandled fault, a response is eventually returned whose x-trace-id is the
\* trace id generated and bound for that request.
C1_TraceIdOnEveryResponse ==
    /\ [](pc[Worker] = "await" => <>(pc[Worker] = "resume"))
    /\ []((pc[Worker] = "resume" /\ ListedOutcome(Worker))
            => <>TraceHeaderSet(Worker))

C1_Witness ==
    /\ TraceHeaderSet(Worker)
    /\ TheOutcome(Worker).type = "Exception"
    /\ HasHeader(TheResponse(Worker), "x-trace-id")

\* C2 as stated: however the awaited call_next ends, no fault leaves
\* request_middleware.
C2_NoFaultEverEscapes == pc[Worker] # "escaped"

\* C2 amended: when call_next ends by raising, request_middleware returns a
\* response exactly if the fault's class derives from Exception; a fault that
\* derives only from BaseException (a cancellation) leaves it.
C2_ExceptionsNeverEscape ==
    (pc[Worker] \in {"done", "escaped"} /\ TheResult(Worker).kind = "raised")
        => /\ Done(Worker) <=> TheOutcome(Worker).type \in ExceptionClasses
           /\ Done(Worker) => response[Worker] # None /\ sent[Worker] # None

C2_Witness ==
    /\ Done(Worker)
    /\ TheResult(Worker).kind = "raised"
    /\ TheOutcome(Worker).type = "Exception"
    /\ response[Worker] # None

\* C3: when request_middleware has returned a response (after a normal
\* response, a translated recognized fault or an unhandled fault) the context
\* it ran in holds no binding, and the next request served in that context
\* finds none when it starts.
C3_ContextCleared ==
    /\ Done(Worker) => ctx[Worker] = NoBindings
    /\ (pc[Worker] \in {"await", "resume", "done", "escaped"}
          /\ prev[Worker] = "done") => seen[Worker] = NoBindings

C3_Witness ==
    /\ pc[Worker] = "await"
    /\ prev[Worker] = "done"
    /\ trace_id[Worker] > 1
    /\ seen[Worker] = NoBindings

\* what request_middleware bound for the request being handled in context c
Bound(c) ==
    ("user_id" :> user_id[c]) @@ ("trace_id" :> trace_id[c])
        @@ ("client_ip" :> ClientIp(request[c].client))

\* C4: while a request is between its bind and its clear, the context it runs
\* in holds exactly the values bound for it, whatever the other contexts'
\* requests bind or clear in the meantime, and every record logged for it
\* carries its own bindings.
C4_ContextsIsolated ==
    \A c \in Ctxs :
        /\ pc[c] \in {"await", "resume"} => ctx[c] = Bound(c)
        /\ pc[c] # "idle" =>
              \A i \in DOMAIN logs[c] : logs[c][i].ctx = Bound(c)

\* b was bound first, a was bound and cleared while b was waiting
C4_Witness ==
    \E a, b \in Ctxs :
        /\ a # b
        /\ pc[b] = "await" /\ pc[a] = "done"
        /\ trace_id[b] < trace_id[a]
        /\ user_id[a] # user_id[b]
        /\ ctx[b] = Bound(b)

\* C5: a fault from downstream that derives from Exception and is not a
\* recognized one gives status 500, body {"status": "error"} and x-trace-id.
C5_GenericFallback ==
    (Done(Worker) /\ TheOutcome(Worker).type = "Exception")
        => /\ TheResponse(Worker).status_code = 500
           /\ TheResponse(Worker).body = <<"status", "error">>
           /\ TheResponse(Worker).headers["x-trace-id"] = trace_id[Worker]
           /\ TheSent(Worker).status_code = 500
           /\ TheSent(Worker).body = <<"status", "error">>
           /\ HasHeader(TheSent(Worker), "x-trace-id")

C5_Witness ==
    /\ Done(Worker)
    /\ TheOutcome(Worker).type = "Exception"
    /\ TheSent(Worker).status_code = 500

\* C6: an ApiError from downstream carrying status_code s and message m
\* gives a final response with status s and body {"detail": m}.
C6_ApiErrorTranslated ==
    (Done(Worker) /\ TheOutcome(Worker).type = "ApiError")
        => /\ TheResponse(Worker).status_code = TheOutcome(Worker).status_code
           /\ TheResponse(Worker).body = <<"detail", TheOutcome(Worker).message>>
           /\ TheSent(Worker).status_code = TheOutcome(Worker).status_code
           /\ TheSent(Worker).body = <<"detail", TheOutcome(Worker).message>>

C6_Witness ==
    /\ Done(Worker)
    /\ TheOutcome(Worker).type = "ApiError"
    /\ TheOutcome(Worker).status_code = 404
    /\ TheOutcome(Worker).message = "not found"
    /\ TheSent(Worker).status_code = 404

\* C7: a TransportError from downstream carrying message m gives a final
\* response with status 500 and body {"detail": m}.
C7_TransportErrorTranslated ==
    (Done(Worker) /\ TheOutcome(Worker).type = "TransportError")
        => /\ TheResponse(Worker).status_code = 500
           /\ TheResponse(Worker).body = <<"detail", TheOutcome(Worker).message>>
           /\ TheSent(Worker).status_code = 500
           /\ TheSent(Worker).body = <<"detail", TheOutcome(Worker).message>>

C7_Witness ==
    /\ Done(Worker)
    /\ TheOutcome(Worker).type = "TransportError"
    /\ TheOutcome(Worker).message = "connection refused"
    /\ TheSent(Worker).status_code = 500

\* C8: no request record is emitted before the response is chosen; when
\* request_middleware has returned there is exactly one, it is the last
\* record of the request, it saw the response's final headers, and its code
\* is the status code of the response returned.
C8_OneRequestRecord ==
    /\ pc[Worker] \in {"await", "resume"} => RequestRecords(Worker) = {}
    /\ Done(Worker) =>
         /\ Cardinality(RequestRecords(Worker)) = 1
         /\ LET rec == logs[Worker][Len(logs[Worker])]
            IN /\ rec.action = "request"
               /\ rec.code = Some(TheResponse(Worker).status_code)
               /\ rec.code = Some(TheSent(Worker).status_code)
               /\ rec.headers = TheResponse(Worker).headers

\* a translated fault whose status differs from a success and the fallback
C8_Witness ==
    /\ Done(Worker)
    /\ TheOutcome(Worker).type = "ApiError"
    /\ Cardinality(RequestRecords(Worker)) = 1
    /\ logs[Worker][Len(logs[Worker])].code = Some(503)

\* C9 as stated: the response carries x-user-id exactly if get_user_id
\* derived a user id, and then with that id, at most 40 characters long.
C9_UserIdHeaderIffDerived ==
    Done(Worker) =>
        /\ HasHeader(TheSent(Worker), "x-user-id") <=> user_id[Worker] # None
        /\ request[Worker].authorization = None
              => ~HasHeader(TheSent(Worker), "x-user-id")
        /\ user_id[Worker] # None =>
              /\ TheSent(Worker).headers["x-user-id"] = TheValue(user_id[Worker])
              /\ Len(TheSent(Worker).headers["x-user-id"]) <= 40

\* C9 amended: when get_user_id derived a user id the response carries
\* x-user-id with that id, at most 40 characters long, on every path that
\* returns a response; when it derived none (as with no authorization header)
\* request_middleware sets no x-user-id, so the response has one only if the
\* response that came back from call_next already carried it, unchanged.
C9_UserIdHeaderSetWhenDerived ==
    Done(Worker) =>
        /\ user_id[Worker] = get_user_id(request[Worker].authorization)
        /\ request[Worker].authorization = None => user_id[Worker] = None
        /\ user_id[Worker] # None =>
              /\ HasHeader(TheSent(Worker), "x-user-id")
              /\ TheSent(Worker).headers["x-user-id"] = TheValue(user_id[Worker])
              /\ Len(TheSent(Worker).headers["x-user-id"]) <= 40
        /\ user_id[Worker] = None =>
              LET res == TheResult(Worker)
                  had == /\ res.kind = "returned"
                         /\ HasHeader(TheValue(res.response), "x-user-id")
              IN /\ HasHeader(TheSent(Worker), "x-user-id") <=> had
                 /\ had => TheSent(Worker).headers["x-user-id"]
                             = TheValue(res.response).headers["x-user-id"]

\* a derived id that needed the truncation, on the fallback path
C9_Witness ==
    /\ Done(Worker)
    /\ request[Worker].authorization = Some(LongToken)
    /\ TheOutcome(Worker).type = "Exception"
    /\ Len(TheSent(Worker).headers["x-user-id"]) = 40

\* C10 as stated: every response handed to a client that sent an Origin
\* header, the translated faults and the generic 500 fallback included, has
\* passed through the CORS layer and carries the CORS header.
C10_CorsOnEveryResponse ==
    (Done(Worker) /\ request[Worker].origin)
        => HasHeader(TheSent(Worker), "access-control-allow-origin")

\* the part of a header value that get_user_id is said to keep
Remainder(s) ==
    IF \A i \in DOMAIN s : s[i] # " "
    THEN s
    ELSE LET k == CHOOSE i \in DOMAIN s :
                     s[i] = " " /\ \A j \in DOMAIN s : s[j] = " " => i <= j
         IN [i \in 1..(Len(s) - k) |-> s[i + k]]

\* the letters and digits of s, lower-cased, in order
LettersOf(s) ==
    LET low == [i \in DOMAIN s |-> ToLower(s[i])]
        Keep(c) == IsAlnum(c)
    IN SelectSeq(low, Keep)

\* the number of maximal runs of letters and digits in s
WordsIn(s) ==
    Cardinality({i \in DOMAIN s :
        /\ IsAlnum(ToLower(s[i]))
        /\ i = 1 \/ ~IsAlnum(ToLower(s[i - 1]))})

NoDash(s) ==
    LET Keep(c) == c # "-"
    IN SelectSeq(s, Keep)

JohnDoe == <<"j","o","h","n","-","d","o","e">>

\* C11: for an authorization header value h, with r the part after the first
\* space (h itself without a space), get_user_id gives nothing exactly if r
\* has no letter or digit; otherwise a string of at most 40 characters made
\* of the lower-cased letters and digits of r in order, one "-" between
\* words, none at either end, cut at 40; "Bearer John Doe!!" gives "john-doe".
C11_UserIdDerivation ==
    pc[Worker] # "idle" =>
        LET h == request[Worker].authorization
            u == user_id[Worker]
        IN /\ h = None => u = None
           /\ h = Some(BearerJohnDoe) => u = Some(JohnDoe)
           /\ h # None =>
                LET r == Remainder(TheValue(h))
                IN /\ u = None <=> LettersOf(r) = <<>>
                   /\ u # None =>
                        LET v == TheValue(u)
                        IN /\ Len(v) >= 1 /\ Len(v) <= 40
                           /\ \A i \in DOMAIN v : IsAlnum(v[i]) \/ v[i] = "-"
                           /\ v[1] # "-"
                           /\ \A i \in 1..(Len(v) - 1) :
                                 ~(v[i] = "-" /\ v[i + 1] = "-")
                           /\ Len(NoDash(v)) <= Len(LettersOf(r))
                           /\ NoDash(v) = SubSeq(LettersOf(r), 1, Len(NoDash(v)))
                           /\ Len(v) < 40 =>
                                 /\ NoDash(v) = LettersOf(r)
                                 /\ v[Len(v)] # "-"
                                 /\ Len(v) - Len(NoDash(v)) = WordsIn(r) - 1

\* a later space stays in the remainder: both words reach the user id
C11_Witness ==
    /\ pc[Worker] = "await"
    /\ request[Worker].authorization = Some(BearerJohnDoe)
    /\ user_id[Worker] = Some(JohnDoe)

\* C12: two requests handled in different contexts, one after the other or
\* interleaved, never share a trace id; when they are the same request and
\* the downstream handler ends the same way for both, the two responses have
\* the same status code and the same body.
C12_SameRequestSameAnswer ==
    \A a, b \in Ctxs :
        a # b =>
          /\ (pc[a] # "idle" /\ pc[b] # "idle") => trace_id[a] # trace_id[b]
          /\ (Done(a) /\ Done(b) /\ request[a] = request[b]
                /\ outcome[a] = outcome[b])
               => /\ TheResponse(a).status_code = TheResponse(b).status_code
                  /\ TheResponse(a).body = TheResponse(b).body
                  /\ TheSent(a).status_code = TheSent(b).status_code
                  /\ TheSent(a).body = TheSent(b).body
                  /\ TheSent(a).headers["x-trace-id"]
                       # TheSent(b).headers["x-trace-id"]

\* the same request answered twice by the fallback, the second time in a
\* context that an escaped fault had left bound
C12_Witness ==
    \E a, b \in Ctxs :
        /\ a # b
        /\ Done(a) /\ Done(b)
        /\ request[a] = request[b]
        /\ outcome[a] = outcome[b]
        /\ TheOutcome(a).type = "Exception"
        /\ prev[b] = "escaped"
        /\ TheSent(a).body = TheSent(b).body

Recognized(c) ==
    /\ outcome[c] # None
    /\ TheOutcome(c).type \in {"ApiError", "TransportError"}

ExceptionRecords(c) ==
    {i \in DOMAIN logs[c] : logs[c][i].action = "exception"}

\* C13: a recognized fault comes back from call_next as the response its
\* handler built, so the except branch is not taken (no fault escapes, no
\* exception record, body never {"status": "error"}), and the response goes
\* through the rest of request_middleware: x-trace-id, x-user-id when a user
\* id was derived, one request record with the translated status, the clear.
C13_TranslationTakesPrecedence ==
    Recognized(Worker) =>
        /\ pc[Worker] # "escaped"
        /\ TheResult(Worker).kind = "returned"
        /\ ExceptionRecords(Worker) = {}
        /\ Done(Worker) =>
             LET translated ==
                   IF TheOutcome(Worker).type = "ApiError"
                   THEN TheOutcome(Worker).status_code ELSE 500
             IN /\ TheSent(Worker).body # <<"status", "error">>
                /\ TheSent(Worker).body = <<"detail", TheOutcome(Worker).message>>
                /\ TheSent(Worker).status_code = translated
                /\ HasHeader(TheSent(Worker), "x-trace-id")
                /\ TheSent(Worker).headers["x-trace-id"] = trace_id[Worker]
                /\ user_id[Worker] # None =>
                      /\ HasHeader(TheSent(Worker), "x-user-id")
                      /\ TheSent(Worker).headers["x-user-id"]
                           = TheValue(user_id[Worker])
                /\ Cardinality(RequestRecords(Worker)) = 1
                /\ \A i \in RequestRecords(Worker) :
                      logs[Worker][i].code = Some(translated)
                /\ ctx[Worker] = NoBindings

C13_Witness ==
    /\ Done(Worker)
    /\ TheOutcome(Worker).type = "ApiError"
    /\ TheOutcome(Worker).status_code = 404
    /\ user_id[Worker] = Some(JohnDoe)
    /\ TheSent(Worker).status_code = 404
    /\ HasHeader(TheSent(Worker), "x-user-id")

\* C14: the context holds the request's trace_id, user_id and client_ip from
\* the bind, through the whole downstream call, to the emission of the
\* request record; the record is emitted after the headers are set and sees
\* the trace id that the returned response carries in x-trace-id; the context
\* is cleared before the response is returned.
C14_StepOrder ==
    /\ pc[Worker] \in {"await", "resume"} =>
          /\ ctx[Worker] = Bound(Worker)
          /\ response[Worker] = None
          /\ RequestRecords(Worker) = {}
    /\ pc[Worker] \in {"resume", "done"} =>
          \A i \in DOMAIN logs[Worker] : logs[Worker][i].ctx = Bound(Worker)
    /\ Done(Worker) =>
          LET rec == logs[Worker][Len(logs[Worker])]
          IN /\ rec.action = "request"
             /\ rec.ctx = Bound(Worker)
             /\ rec.ctx["trace_id"] = TheResponse(Worker).headers["x-trace-id"]
             /\ rec.headers = TheResponse(Worker).headers
             /\ ctx[Worker] = NoBindings
             /\ result[Worker] # None

C14_Witness ==
    /\ Done(Worker)
    /\ TheOutcome(Worker).type = "TransportError"
    /\ Len(logs[Worker]) = 2
    /\ logs[Worker][1].ctx = logs[Worker][2].ctx
    /\ logs[Worker][2].ctx["user_id"] = Some(JohnDoe)
    /\ ctx[Worker] = NoBindings

\* C15 as stated: before the downstream handler is invoked the context holds
\* all four fields trace_id, user_id, client_ip and start_time.
C15_AllFourFieldsBound ==
    pc[Worker] \in {"await", "resume"} =>
        DOMAIN ctx[Worker] = {"trace_id", "user_id", "client_ip", "start_time"}

\* C15 amended: before the downstream handler is invoked the context holds
\* exactly the three fields trace_id, user_id and client_ip (start_time stays
\* a local variable of request_middleware); client_ip is the peer address,
\* or 127.0.0.1 when the request has no client.
C15_ThreeFieldsBound ==
    pc[Worker] \in {"await", "resume"} =>
        /\ DOMAIN ctx[Worker] = {"trace_id", "user_id", "client_ip"}
        /\ ctx[Worker]["trace_id"] = trace_id[Worker]
        /\ ctx[Worker]["user_id"] = user_id[Worker]
        /\ request[Worker].client = None
              => ctx[Worker]["client_ip"] = "127.0.0.1"
        /\ request[Worker].client # None
              => ctx[Worker]["client_ip"] \in request[Worker].client

C15_Witness ==
    /\ pc[Worker] = "await"
    /\ request[Worker].client = Some("10.0.0.1")
    /\ ctx[Worker]["client_ip"] = "10.0.0.1"
    /\ ctx[Worker]["trace_id"] = trace_id[Worker]

\* an authorization header is present and the part after its first space has
\* no letter or digit
NothingLeft(c) ==
    /\ request[c].authorization # None
    /\ LettersOf(Remainder(TheValue(request[c].authorization))) = <<>>

\* C16 as stated: with such a header no user id is derived, the request is
\* handled to a response, and the response carries no x-user-id header.
C16_NoUserIdHeader ==
    NothingLeft(Worker) =>
        /\ pc[Worker] # "idle" => user_id[Worker] = None
        /\ Done(Worker) => ~HasHeader(TheSent(Worker), "x-user-id")

\* C16 amended: with such a header no user id is derived, the request is
\* handled as any other, and request_middleware sets x-trace-id and nothing
\* else on the response that the try statement chose, exactly as when the
\* header is absent; an x-user-id is there only if that response had it.
C16_HandledAsAbsent ==
    NothingLeft(Worker) =>
        /\ pc[Worker] # "idle" =>
              /\ user_id[Worker] = None
              /\ user_id[Worker] = get_user_id(None)
        /\ (pc[Worker] = "escaped") => TheOutcome(Worker).type = "CancelledError"
        /\ Done(Worker) =>
              LET chosen == IF TheResult(Worker).kind = "returned"
                            THEN TheValue(TheResult(Worker).response)
                            ELSE [status_code |-> 500,
                                  body |-> <<"status", "error">>,
                                  headers |-> NoHeaders]
              IN /\ TheResponse(Worker).status_code = chosen.status_code
                 /\ TheResponse(Worker).body = chosen.body
                 /\ DOMAIN TheResponse(Worker).headers
                      = DOMAIN chosen.headers \cup {"x-trace-id"}
                 /\ HasHeader(TheSent(Worker), "x-user-id")
                      <=> HasHeader(chosen, "x-user-id")
                 /\ HasHeader(chosen, "x-user-id") =>
                       TheSent(Worker).headers["x-user-id"]
                         = chosen.headers["x-user-id"]

\* an empty remainder, handled to a normal response without x-user-id
C16_Witness ==
    /\ Done(Worker)
    /\ request[Worker].authorization = Some(<<"B", " ">>)
    /\ TheOutcome(Worker).type = "Response"
    /\ ~HasHeader(TheSent(Worker), "x-user-id")
    /\ HasHeader(TheSent(Worker), "x-trace-id")

\* C17: when call_next returned a response, the response handed back has the
\* same status code and body, x-trace-id is the trace id generated for this
\* request and x-user-id the derived user id (when one was derived) whatever
\* the downstream response carried there, and every other header is as it
\* came back from call_next.
C17_OnlyDiagnosticHeadersChanged ==
    (Done(Worker) /\ TheResult(Worker).kind = "returned") =>
        LET down == TheValue(TheResult(Worker).response)
            resp == TheResponse(Worker)
            set == IF user_id[Worker] # None
                   THEN {"x-trace-id", "x-user-id"} ELSE {"x-trace-id"}
        IN /\ resp.status_code = down.status_code
           /\ resp.body = down.body
           /\ DOMAIN resp.headers = DOMAIN down.headers \cup set
           /\ resp.headers["x-trace-id"] = trace_id[Worker]
           /\ user_id[Worker] # None
                 => resp.headers["x-user-id"] = TheValue(user_id[Worker])
           /\ \A k \in DOMAIN down.headers \ set :
                 resp.headers[k] = down.headers[k]
           /\ TheSent(Worker) = resp

\* the downstream response carried both headers and both were overwritten
C17_Witness ==
    /\ Done(Worker)
    /\ TheResult(Worker).kind = "returned"
    /\ HasHeader(TheValue(TheResult(Worker).response), "x-trace-id")
    /\ HasHeader(TheValue(TheResult(Worker).response), "x-user-id")
    /\ user_id[Worker] = Some(JohnDoe)
    /\ TheResponse(Worker).headers["x-user-id"] = JohnDoe
    /\ TheResponse(Worker).headers["x-trace-id"] = trace_id[Worker]
    /\ TheValue(TheResult(Worker).response).headers["x-trace-id"]
         # trace_id[Worker]

====
